---- MODULE Spec2Model ----
(***************************************************************************)
(* Sudorix solver core: the candidate board, the event queue, the four     *)
(* techniques and the four exported entry points of src/src/solver.cpp.    *)
(*                                                                         *)
(* A character is its ASCII code, a string the tuple of its characters     *)
(* (the terminating NUL is the end of the tuple).  A candidate mask is the *)
(* integer the code stores; bit d-1 stands for digit d.                    *)
(***************************************************************************)
EXTENDS Integers, Sequences, FiniteSets, TLC

VARIABLES
  g_sudokuBoard,  \* static SudokuBoard g_sudokuBoard: cells[81]
  g_eventQueue,   \* static EventQueue g_eventQueue: q and s
  pc,             \* "idle", "full" while sudorix_solver_full runs its loop, or "undefined"
  board,          \* sudorix_solver_full: the local SudokuBoard board
  guard,          \* sudorix_solver_full: the local int guard
  in81,           \* sudorix_solver_full: index in Inputs of the argument in81
  entry,          \* the session board and queue as they were when the running call was made
  last            \* the latest call: its name, argument, return value and output buffer

vars == <<g_sudokuBoard, g_eventQueue, pc, board, guard, in81, entry, last>>

\* the function f, unchanged.  TLC keeps [x \in S |-> e] as an unevaluated rule and
\* evaluates e at every application; comparing the function makes TLC tabulate it once.
Tabulated(f) == IF f = f THEN f ELSE f

(***************************************************************************)
(* Precomputed indices                                                     *)
(***************************************************************************)
ROW_CELLS ==
  << << 0, 1, 2, 3, 4, 5, 6, 7, 8 >>,
     << 9, 10, 11, 12, 13, 14, 15, 16, 17 >>,
     << 18, 19, 20, 21, 22, 23, 24, 25, 26 >>,
     << 27, 28, 29, 30, 31, 32, 33, 34, 35 >>,
     << 36, 37, 38, 39, 40, 41, 42, 43, 44 >>,
     << 45, 46, 47, 48, 49, 50, 51, 52, 53 >>,
     << 54, 55, 56, 57, 58, 59, 60, 61, 62 >>,
     << 63, 64, 65, 66, 67, 68, 69, 70, 71 >>,
     << 72, 73, 74, 75, 76, 77, 78, 79, 80 >> >>

COL_CELLS ==
  << << 0, 9, 18, 27, 36, 45, 54, 63, 72 >>,
     << 1, 10, 19, 28, 37, 46, 55, 64, 73 >>,
     << 2, 11, 20, 29, 38, 47, 56, 65, 74 >>,
     << 3, 12, 21, 30, 39, 48, 57, 66, 75 >>,
     << 4, 13, 22, 31, 40, 49, 58, 67, 76 >>,
     << 5, 14, 23, 32, 41, 50, 59, 68, 77 >>,
     << 6, 15, 24, 33, 42, 51, 60, 69, 78 >>,
     << 7, 16, 25, 34, 43, 52, 61, 70, 79 >>,
     << 8, 17, 26, 35, 44, 53, 62, 71, 80 >> >>

BOX_CELLS ==
  << << 0, 1, 2, 9, 10, 11, 18, 19, 20 >>,
     << 3, 4, 5, 12, 13, 14, 21, 22, 23 >>,
     << 6, 7, 8, 15, 16, 17, 24, 25, 26 >>,
     << 27, 28, 29, 36, 37, 38, 45, 46, 47 >>,
     << 30, 31, 32, 39, 40, 41, 48, 49, 50 >>,
     << 33, 34, 35, 42, 43, 44, 51, 52, 53 >>,
     << 54, 55, 56, 63, 64, 65, 72, 73, 74 >>,
     << 57, 58, 59, 66, 67, 68, 75, 76, 77 >>,
     << 60, 61, 62, 69, 70, 71, 78, 79, 80 >> >>

\* tbl[u][k] of the code, both indices from 0
At(tbl, u, k) == tbl[u + 1][k + 1]

idxRow(idx) == idx \div 9

idxCol(idx) == idx % 9

idxBox(idx) == (idxRow(idx) \div 3) * 3 + (idxCol(idx) \div 3)

(***************************************************************************)
(* Helpers (bitmasks)                                                      *)
(***************************************************************************)
Digits == 1..9

\* constexpr uint16_t ALL = 0x01FF
ALL == 511

\* 1u << (d - 1u), d in 1..16
Pow2 == <<1, 2, 4, 8, 16, 32, 64, 128, 256, 512, 1024, 2048, 4096, 8192, 16384, 32768>>

digitToBit(d) == Pow2[d]

\* (mask & digitToBit(d)) != 0
TestBit(mask, d) == (mask \div digitToBit(d)) % 2 = 1

\* mask & 0x1FFu
And9(mask) == mask % 512

\* a & ~digitToBit(d)
AndNotBit(a, d) == IF TestBit(a, d) THEN a - digitToBit(d) ELSE a

\* a & ~b on 9-bit masks
RECURSIVE BitAndNot(_, _, _)
BitAndNot(a, b, d) ==
  IF d > 9 THEN a
  ELSE BitAndNot(IF TestBit(b, d) THEN AndNotBit(a, d) ELSE a, b, d + 1)

\* the mask whose bits are the digits of S
RECURSIVE BitSet(_, _)
BitSet(S, d) ==
  IF d > 9 THEN 0
  ELSE (IF d \in S THEN digitToBit(d) ELSE 0) + BitSet(S, d + 1)

countBits9(mask) == Cardinality({d \in Digits : TestBit(And9(mask), d)})

\* __builtin_ctz(mask) + 1, mask having a bit set
bitToDigitSingle(mask) ==
  CHOOSE d \in 1..16 : TestBit(mask, d) /\ \A e \in 1..(d - 1) : ~TestBit(mask, e)

(***************************************************************************)
(* SudokuCell                                                              *)
(***************************************************************************)
SudokuCell == [value |-> 0, candMask |-> 0]

Cell_setValue(cell, digit) ==
  IF digit # 0
    THEN [value |-> digit, candMask |-> digitToBit(digit)]
    ELSE [cell EXCEPT !.value = digit]

Cell_getCandidateMask(cell) == And9(cell.candMask)

Cell_setCandidateMask(cell, mask) == [cell EXCEPT !.candMask = And9(mask)]

Cell_hasCandidate(cell, digit) == TestBit(Cell_getCandidateMask(cell), digit)

\* getSingleCandidate without its test that exactly one candidate is left
Cell_getSingleCandidate_lowestCandidate(cell) ==
  LET m == Cell_getCandidateMask(cell)
  IN  IF m # 0 THEN bitToDigitSingle(m) ELSE 0

Cell_getSingleCandidate(cell) ==
  LET m == Cell_getCandidateMask(cell)
  IN  IF countBits9(m) = 1 THEN bitToDigitSingle(m) ELSE 0

Cell_disableCandidate(cell, digit) ==
  LET before == Cell_getCandidateMask(cell)
      after  == AndNotBit(before, digit)
  IN  IF after # before THEN [cell EXCEPT !.candMask = after] ELSE cell

(***************************************************************************)
(* SudokuBoard: a board is the array cells[81], indexed 0..80              *)
(***************************************************************************)
SudokuBoard == [idx \in 0..80 |-> SudokuCell]

getValue(b, idx) == b[idx].value

isSolved(b, idx) == b[idx].value # 0

setValue(b, idx, digit) == [b EXCEPT ![idx] = Cell_setValue(@, digit)]

getCandidateMask(b, idx) == Cell_getCandidateMask(b[idx])

setCandidateMask(b, idx, mask) == [b EXCEPT ![idx] = Cell_setCandidateMask(@, mask)]

hasCandidate(b, idx, digit) == Cell_hasCandidate(b[idx], digit)

getSingleCandidate(b, idx) == Cell_getSingleCandidate(b[idx])

disableCandidate(b, idx, digit) == [b EXCEPT ![idx] = Cell_disableCandidate(@, digit)]

isCompletelySolved(b) == \A idx \in 0..80 : isSolved(b, idx)

(***************************************************************************)
(* _recalcAllCandidatesFromValues: the board it leaves and the bool it     *)
(* returns.  When pass 1 reaches idx without having returned, rowUsed,     *)
(* colUsed and boxUsed hold the digits of the solved cells before idx.     *)
(***************************************************************************)
SameUnit(i, j) == idxRow(i) = idxRow(j) \/ idxCol(i) = idxCol(j) \/ idxBox(i) = idxBox(j)

\* the cells that share a row, a column or a box with idx, idx included
UnitMates == [idx \in 0..80 |-> {j \in 0..80 : SameUnit(idx, j)}]

\* pass 1 returns false at idx
Recalc_conflictAt(b, idx) ==
  /\ getValue(b, idx) # 0
  /\ \/ getValue(b, idx) < 1
     \/ getValue(b, idx) > 9
     \/ \E j \in UnitMates[idx] : j < idx /\ getValue(b, j) = getValue(b, idx)

\* rowUsed[r] | colUsed[c] | boxUsed[b] of pass 2, as the set of the digits whose bit is set
Recalc_used(b, idx) == {getValue(b, j) : j \in {k \in UnitMates[idx] : isSolved(b, k)}}

\* ALL & ~used
Recalc_allowed(b, idx) == BitAndNot(ALL, BitSet(Recalc_used(b, idx), 1), 1)

Least(S) == CHOOSE x \in S : \A y \in S : x <= y

_recalcAllCandidatesFromValues(b) ==
  LET conflicts == {idx \in 0..80 : Recalc_conflictAt(b, idx)}
      stop1     == IF conflicts = {} THEN 81 ELSE Least(conflicts)
      allowed   == Tabulated([idx \in 0..80 |->
                               IF isSolved(b, idx) THEN 0 ELSE Recalc_allowed(b, idx)])
      dead      == {idx \in 0..80 : ~isSolved(b, idx) /\ allowed[idx] = 0}
      stop2     == IF stop1 < 81 THEN 0 ELSE IF dead = {} THEN 81 ELSE Least(dead)
  IN  [board |-> Tabulated([idx \in 0..80 |->
                    IF isSolved(b, idx) /\ idx < stop1
                      THEN Cell_setCandidateMask(b[idx], digitToBit(getValue(b, idx)))
                    ELSE IF ~isSolved(b, idx) /\ idx < stop2
                      THEN Cell_setCandidateMask(b[idx], allowed[idx])
                    ELSE Cell_setCandidateMask(b[idx], 0)]),
       ok    |-> stop1 = 81 /\ stop2 = 81]

(***************************************************************************)
(* importFromString.  The loop index i is the position in the string and   *)
(* also the index of the cell written; the loop ends at the NUL or after   *)
(* the 81st recognized symbol.  A store to cells[i] with i > 80 falls      *)
(* outside the board and leaves its 81 cells as they are.                  *)
(***************************************************************************)
Ch0 == 48

Ch1 == 49

Ch9 == 57

ChDot == 46

\* values[i], i from 0
CharAt(values, i) == values[i + 1]

Import_isToken(ch) == (ch >= Ch1 /\ ch <= Ch9) \/ ch = Ch0 \/ ch = ChDot

Import_digit(ch) == IF ch >= Ch1 /\ ch <= Ch9 THEN ch - Ch0 ELSE 0

\* the positions of the recognized symbols of values, in order
Import_positions(values) ==
  LET recognized(i) == Import_isToken(CharAt(values, i))
  IN  SelectSeq([k \in 1..Len(values) |-> k - 1], recognized)

\* importFromString content with 80 recognized symbols
importFromString_accepts80(b, values) ==
  LET pos    == Import_positions(values)
      tokens == IF Len(pos) < 81 THEN Len(pos) ELSE 81
      stores == {pos[k] : k \in 1..tokens}
      parsed == Tabulated([i \in 0..80 |->
                   IF i \in stores
                     THEN Cell_setValue(b[i], Import_digit(CharAt(values, i)))
                     ELSE b[i]])
      oob    == \E i \in stores : i > 80
  IN  IF tokens < 80 THEN [board |-> parsed, ret |-> 0, oob |-> oob]
      ELSE [board |-> _recalcAllCandidatesFromValues(parsed).board, ret |-> 1, oob |-> oob]

\* the board after the call, the int returned, and whether the loop stored
\* into cells[i] with i > 80
importFromString(b, values) ==
  LET pos    == Import_positions(values)
      tokens == IF Len(pos) < 81 THEN Len(pos) ELSE 81
      stores == {pos[k] : k \in 1..tokens}
      parsed == Tabulated([i \in 0..80 |->
                   IF i \in stores
                     THEN Cell_setValue(b[i], Import_digit(CharAt(values, i)))
                     ELSE b[i]])
      oob    == \E i \in stores : i > 80
  IN  IF tokens < 81 THEN [board |-> parsed, ret |-> 0, oob |-> oob]
      ELSE [board |-> _recalcAllCandidatesFromValues(parsed).board, ret |-> 1, oob |-> oob]

(***************************************************************************)
(* importFromBuffers: values[81] and cands[81] are functions on 0..80      *)
(***************************************************************************)
importFromBuffers(b, values, cands) ==
  Tabulated([i \in 0..80 |->
     IF values[i] = 0
       THEN Cell_setCandidateMask(Cell_setValue(b[i], values[i]), cands[i])
       ELSE Cell_setCandidateMask(Cell_setValue(b[i], values[i]), digitToBit(values[i]))])

(***************************************************************************)
(* events API                                                              *)
(***************************************************************************)
RECURSIVE ClearPeers(_, _, _, _)
ClearPeers(b, idx, digit, k) ==
  IF k = 9 THEN b
  ELSE
    LET ir == At(ROW_CELLS, idxRow(idx), k)
        ic == At(COL_CELLS, idxCol(idx), k)
        ib == At(BOX_CELLS, idxBox(idx), k)
        b1 == IF ir # idx /\ ~isSolved(b, ir) THEN disableCandidate(b, ir, digit) ELSE b
        b2 == IF ic # idx /\ ~isSolved(b1, ic) THEN disableCandidate(b1, ic, digit) ELSE b1
        b3 == IF ib # idx /\ ~isSolved(b2, ib) THEN disableCandidate(b2, ib, digit) ELSE b2
    IN  ClearPeers(b3, idx, digit, k + 1)

autoClearPeersAfterPlacement(b, idx, digit) == ClearPeers(b, idx, digit, 0)

\* applySetValue without its call of autoClearPeersAfterPlacement
applySetValue_noPropagation(b, idx, digit) == setValue(b, idx, digit)

applySetValue(b, idx, digit) ==
  autoClearPeersAfterPlacement(setValue(b, idx, digit), idx, digit)

\* applyRemoveCandidate without its call of disableCandidate
applyRemoveCandidate_keepsCandidate(b, idx, digit) ==
  LET only == getSingleCandidate(b, idx)
  IN  IF only # 0 THEN applySetValue(b, idx, only) ELSE b

applyRemoveCandidate(b, idx, digit) ==
  LET b1   == disableCandidate(b, idx, digit)
      only == getSingleCandidate(b1, idx)
  IN  IF only # 0 THEN applySetValue(b1, idx, only) ELSE b1

(***************************************************************************)
(* The strings passed as in81                                              *)
(***************************************************************************)
Inputs ==
  <<
  (* 1: a puzzle with exactly one solution; a pointing pair is its first deduction *)
  <<
     46, 50, 56, 57, 51, 46, 54, 46, 49, 49, 51, 53, 50, 46, 54, 57, 56, 46, 46, 57, 54, 56, 46, 49, 51, 46, 50,
     53, 56, 55, 49, 54, 46, 50, 57, 46, 50, 49, 52, 53, 57, 46, 55, 46, 46, 57, 54, 51, 55, 46, 50, 46, 49, 46,
     54, 55, 50, 52, 49, 46, 46, 51, 57, 51, 52, 57, 54, 46, 46, 49, 50, 46, 56, 53, 49, 51, 50, 57, 52, 46, 46 >>,
  (* 2: no two givens clash, yet the grid has no solution *)
  <<
     51, 52, 56, 46, 53, 54, 55, 49, 50, 57, 50, 55, 51, 52, 49, 54, 46, 56, 54, 49, 53, 50, 46, 56, 52, 51, 57,
     56, 57, 51, 54, 50, 46, 53, 52, 46, 55, 53, 49, 56, 57, 52, 51, 50, 46, 50, 54, 52, 53, 46, 51, 57, 56, 49,
     52, 51, 57, 49, 54, 50, 56, 55, 53, 49, 56, 46, 55, 51, 53, 46, 57, 52, 53, 55, 50, 52, 56, 57, 49, 54, 51 >>,
  (* 3: a puzzle with exactly one solution; no Full House, Hidden Single, pointing or
     Naked Single is available, and within row 1 the digit 1 is confined to box 2 *)
  <<
     46, 57, 50, 55, 46, 46, 53, 46, 46, 55, 51, 56, 52, 54, 53, 57, 46, 46, 46, 53, 54, 46, 50, 57, 46, 56, 55,
     51, 46, 55, 53, 52, 46, 46, 46, 57, 57, 54, 49, 46, 55, 46, 56, 52, 53, 53, 46, 52, 57, 46, 54, 46, 55, 46,
     54, 52, 57, 46, 51, 46, 55, 53, 56, 56, 55, 53, 54, 57, 52, 46, 51, 46, 50, 49, 51, 56, 53, 55, 46, 57, 46 >>,
  (* 4: only 80 symbols *)
  <<
     53, 51, 46, 46, 55, 46, 46, 46, 46, 54, 46, 46, 49, 57, 53, 46, 46, 46, 46, 57, 56, 46, 46, 46, 46, 54, 46,
     56, 46, 46, 46, 54, 46, 46, 46, 51, 52, 46, 46, 56, 46, 51, 46, 46, 49, 55, 46, 46, 46, 50, 46, 46, 46, 54,
     46, 54, 46, 46, 46, 46, 50, 56, 46, 46, 46, 46, 52, 49, 57, 46, 46, 53, 46, 46, 46, 46, 56, 46, 55, 57 >>,
  (* 5: two givens 5 in row 0 *)
  <<
     53, 53, 46, 46, 46, 46, 46, 46, 46, 46, 46, 46, 46, 46, 46, 46, 46, 46, 46, 46, 46, 46, 46, 46, 46, 46, 46,
     46, 46, 46, 46, 46, 46, 46, 46, 46, 46, 46, 46, 46, 46, 46, 46, 46, 46, 46, 46, 46, 46, 46, 46, 46, 46, 46,
     46, 46, 46, 46, 46, 46, 46, 46, 46, 46, 46, 46, 46, 46, 46, 46, 46, 46, 46, 46, 46, 46, 46, 46, 46, 46, 46 >>,
  (* 6: cell 8 is empty and sees all nine digits *)
  <<
     49, 50, 51, 52, 53, 54, 55, 56, 46, 46, 46, 46, 46, 46, 46, 46, 46, 57, 46, 46, 46, 46, 46, 46, 46, 46, 46,
     46, 46, 46, 46, 46, 46, 46, 46, 46, 46, 46, 46, 46, 46, 46, 46, 46, 46, 46, 46, 46, 46, 46, 46, 46, 46, 46,
     46, 46, 46, 46, 46, 46, 46, 46, 46, 46, 46, 46, 46, 46, 46, 46, 46, 46, 46, 46, 46, 46, 46, 46, 46, 46, 46 >>,
  (* 7: a puzzle with exactly one solution, solved by singles *)
  <<
     53, 51, 46, 46, 55, 46, 46, 46, 46, 54, 46, 46, 49, 57, 53, 46, 46, 46, 46, 57, 56, 46, 46, 46, 46, 54, 46,
     56, 46, 46, 46, 54, 46, 46, 46, 51, 52, 46, 46, 56, 46, 51, 46, 46, 49, 55, 46, 46, 46, 50, 46, 46, 46, 54,
     46, 54, 46, 46, 46, 46, 50, 56, 46, 46, 46, 46, 52, 49, 57, 46, 46, 53, 46, 46, 46, 46, 56, 46, 46, 55, 57 >>,
  (* 8: puzzle 7 with a line feed after its first row *)
  <<
     53, 51, 46, 46, 55, 46, 46, 46, 46, 10, 54, 46, 46, 49, 57, 53, 46, 46, 46, 46, 57, 56, 46, 46, 46, 46, 54,
     46, 56, 46, 46, 46, 54, 46, 46, 46, 51, 52, 46, 46, 56, 46, 51, 46, 46, 49, 55, 46, 46, 46, 50, 46, 46, 46,
     54, 46, 54, 46, 46, 46, 46, 50, 56, 46, 46, 46, 46, 52, 49, 57, 46, 46, 53, 46, 46, 46, 46, 56, 46, 46, 55,
     57 >>,
  (* 9: the solution of puzzle 7 without cells 0, 40 and 80 *)
  <<
     46, 51, 52, 54, 55, 56, 57, 49, 50, 54, 55, 50, 49, 57, 53, 51, 52, 56, 49, 57, 56, 51, 52, 50, 53, 54, 55,
     56, 53, 57, 55, 54, 49, 52, 50, 51, 52, 50, 54, 56, 46, 51, 55, 57, 49, 55, 49, 51, 57, 50, 52, 56, 53, 54,
     57, 54, 49, 53, 51, 55, 50, 56, 52, 50, 56, 55, 52, 49, 57, 54, 51, 53, 51, 52, 53, 50, 56, 54, 49, 55, 46 >>,
  (* 10: the solution of puzzle 7 without cells 4 and 44 *)
  <<
     53, 51, 52, 54, 46, 56, 57, 49, 50, 54, 55, 50, 49, 57, 53, 51, 52, 56, 49, 57, 56, 51, 52, 50, 53, 54, 55,
     56, 53, 57, 55, 54, 49, 52, 50, 51, 52, 50, 54, 56, 53, 51, 55, 57, 46, 55, 49, 51, 57, 50, 52, 56, 53, 54,
     57, 54, 49, 53, 51, 55, 50, 56, 52, 50, 56, 55, 52, 49, 57, 54, 51, 53, 51, 52, 53, 50, 56, 54, 49, 55, 57 >>,
  (* 11: the empty grid *)
  <<
     46, 46, 46, 46, 46, 46, 46, 46, 46, 46, 46, 46, 46, 46, 46, 46, 46, 46, 46, 46, 46, 46, 46, 46, 46, 46, 46,
     46, 46, 46, 46, 46, 46, 46, 46, 46, 46, 46, 46, 46, 46, 46, 46, 46, 46, 46, 46, 46, 46, 46, 46, 46, 46, 46,
     46, 46, 46, 46, 46, 46, 46, 46, 46, 46, 46, 46, 46, 46, 46, 46, 46, 46, 46, 46, 46, 46, 46, 46, 46, 46, 46 >>,
  (* 12: box 0 confines each of the digits 1, 8 and 9 to column 2, where six cells
     outside the box carry them *)
  <<
     50, 51, 46, 46, 46, 46, 46, 46, 46, 52, 53, 46, 46, 46, 46, 46, 46, 46, 54, 55, 46, 46, 46, 46, 46, 46, 46,
     46, 46, 46, 46, 46, 46, 46, 46, 46, 46, 46, 46, 46, 46, 46, 46, 46, 46, 46, 46, 46, 46, 46, 46, 46, 46, 46,
     46, 46, 46, 46, 46, 46, 46, 46, 46, 46, 46, 46, 46, 46, 46, 46, 46, 46, 46, 46, 46, 46, 46, 46, 46, 46, 46 >>,
  (* 13: only the first row of puzzle 7 *)
  <<
     53, 51, 46, 46, 55, 46, 46, 46, 46 >>
  >>

(***************************************************************************)
(* Events                                                                  *)
(***************************************************************************)
EventType_None == 0

EventType_SetValue == 1

EventType_RemoveCandidate == 2

ReasonId_Solver == 0

ReasonId_FullHouse == 1

ReasonId_NakedSingle == 2

ReasonId_HiddenSingle == 3

ReasonId_PointingPair == 4

ReasonId_PointingTriple == 5

ReasonId_LockedCandidates == 6

ReasonId_BoxLineReduction == 7

Event(type, idx, digit, reason) ==
  [type |-> type, idx |-> idx, digit |-> digit, reason |-> reason]

getEventId(ev) == (ev.type % 256) + (ev.idx % 256) * 256 + (ev.digit % 256) * 65536

(***************************************************************************)
(* Event queue: q is the std::queue, s the std::set of the ids in q        *)
(***************************************************************************)
EventQueue == [q |-> <<>>, s |-> {}]

push(Q, x) ==
  IF getEventId(x) \in Q.s THEN Q
  ELSE [q |-> Append(Q.q, x), s |-> Q.s \cup {getEventId(x)}]

\* pop that removes the entry at the back
pop_removesBack(Q) ==
  [q |-> SubSeq(Q.q, 1, Len(Q.q) - 1), s |-> Q.s \ {getEventId(Q.q[Len(Q.q)])}]

\* called on a non-empty queue only
pop(Q) == [q |-> Tail(Q.q), s |-> Q.s \ {getEventId(Head(Q.q))}]

front(Q) == Head(Q.q)

size(Q) == Len(Q.q)

empty(Q) == Q.q = <<>>

\* while (!g_eventQueue.empty()) g_eventQueue.pop();
RECURSIVE ResetQueue(_)
ResetQueue(Q) == IF empty(Q) THEN Q ELSE ResetQueue(pop(Q))

NoEvent == Event(EventType_None, 0, 0, ReasonId_Solver)

IsEvent(ev) == ev.type # EventType_None

\* push(evs[1]), push(evs[2]), ... in turn: an event is appended unless its id
\* is in s, that is unless it is in the queue or was appended before it
pushAll(Q, evs) ==
  LET fresh(k) == /\ getEventId(evs[k]) \notin Q.s
                  /\ \A j \in 1..(k - 1) : getEventId(evs[j]) # getEventId(evs[k])
      kept     == SelectSeq([k \in 1..Len(evs) |-> IF fresh(k) THEN evs[k] ELSE NoEvent], IsEvent)
  IN  [q |-> Q.q \o kept, s |-> Q.s \cup {getEventId(kept[k]) : k \in 1..Len(kept)}]

\* the event enqueueSetValue hands to push, NoEvent when it returns before
enqueueSetValue(b, idx, digit, reason) ==
  IF digit = 0 THEN NoEvent
  ELSE IF isSolved(b, idx) THEN NoEvent
  ELSE Event(EventType_SetValue, idx, digit, reason)

\* enqueueRemoveCandidate without its test that the cell has the candidate
enqueueRemoveCandidate_unguarded(b, idx, digit, reason) ==
  IF digit = 0 THEN NoEvent
  ELSE IF isSolved(b, idx) THEN NoEvent
  ELSE Event(EventType_RemoveCandidate, idx, digit, reason)

\* the event enqueueRemoveCandidate hands to push, NoEvent when it returns before
enqueueRemoveCandidate(b, idx, digit, reason) ==
  IF digit = 0 THEN NoEvent
  ELSE IF isSolved(b, idx) THEN NoEvent
  ELSE IF ~hasCandidate(b, idx, digit) THEN NoEvent
  ELSE Event(EventType_RemoveCandidate, idx, digit, reason)

(***************************************************************************)
(* Techniques.  A technique reads the board b and calls enqueueSetValue or *)
(* enqueueRemoveCandidate at fixed points of its scan; X_at(b, n) is the   *)
(* event pushed at the n-th point in scan order (NoEvent when the scan     *)
(* makes no call there or the call pushes nothing), and techX(Q, b) is the *)
(* queue the technique leaves.                                             *)
(***************************************************************************)
\* scanUnit of techFullHouse: emptyIdx >= 0 exactly when one cell of the unit is empty
FullHouse_scanUnit(b, unitCells) ==
  LET emptyKs == {k \in 1..9 : getValue(b, unitCells[k]) = 0}
      present == BitSet({getValue(b, unitCells[k]) : k \in (1..9) \ emptyKs}, 1)
      missingMask == BitAndNot(ALL, present, 1)
  IN  IF Cardinality(emptyKs) = 1 /\ countBits9(missingMask) = 1
        THEN enqueueSetValue(b, unitCells[CHOOSE k \in emptyKs : TRUE],
                             bitToDigitSingle(missingMask), ReasonId_FullHouse)
        ELSE NoEvent

\* for u: scanUnit(BOX_CELLS[u]); scanUnit(ROW_CELLS[u]); scanUnit(COL_CELLS[u])
FullHouse_at(b, n) ==
  LET u == (n - 1) \div 3
      t == (n - 1) % 3
  IN  FullHouse_scanUnit(b, IF t = 0 THEN BOX_CELLS[u + 1]
                            ELSE IF t = 1 THEN ROW_CELLS[u + 1] ELSE COL_CELLS[u + 1])

techFullHouse(Q, b) ==
  pushAll(Q, SelectSeq([n \in 1..27 |-> FullHouse_at(b, n)], IsEvent))

\* scanUnit of techHiddenSingles for one digit: foundIdx >= 0 exactly when one
\* unsolved cell of the unit has the candidate
HiddenSingles_scanUnit(b, unitCells, digit) ==
  LET found == {k \in 1..9 : ~isSolved(b, unitCells[k]) /\ hasCandidate(b, unitCells[k], digit)}
  IN  IF Cardinality(found) = 1
        THEN enqueueSetValue(b, unitCells[CHOOSE k \in found : TRUE], digit, ReasonId_HiddenSingle)
        ELSE NoEvent

\* the scan with the 9 rows first, then the 9 boxes, then the 9 columns
HiddenSingles_at_rowsFirst(b, n) ==
  LET t     == (n - 1) \div 81
      u     == ((n - 1) % 81) \div 9
      digit == ((n - 1) % 9) + 1
  IN  HiddenSingles_scanUnit(b, IF t = 0 THEN ROW_CELLS[u + 1]
                                ELSE IF t = 1 THEN BOX_CELLS[u + 1] ELSE COL_CELLS[u + 1],
                             digit)

\* the 9 boxes, then the 9 rows, then the 9 columns; in each unit digit 1..9
HiddenSingles_at(b, n) ==
  LET t     == (n - 1) \div 81
      u     == ((n - 1) % 81) \div 9
      digit == ((n - 1) % 9) + 1
  IN  HiddenSingles_scanUnit(b, IF t = 0 THEN BOX_CELLS[u + 1]
                                ELSE IF t = 1 THEN ROW_CELLS[u + 1] ELSE COL_CELLS[u + 1],
                             digit)

techHiddenSingles(Q, b) ==
  pushAll(Q, SelectSeq([n \in 1..243 |-> HiddenSingles_at(b, n)], IsEvent))

\* positions[0..posCount-1] of techLockedCandidates for box bx and digit
Locked_positions(b, bx, digit) ==
  {At(BOX_CELLS, bx, k) : k \in {j \in 0..8 :
      ~isSolved(b, At(BOX_CELLS, bx, j)) /\ hasCandidate(b, At(BOX_CELLS, bx, j), digit)}}

\* for box bx and digit: reasonId, and the row r0 and the column c0 to clear (-1: none)
Locked_boxDigit(b, bx, digit) ==
  LET positions == Locked_positions(b, bx, digit)
      posCount  == Cardinality(positions)
  IN  IF posCount < 2 THEN [reasonId |-> ReasonId_Solver, row |-> -1, col |-> -1]
      ELSE
        LET \* positions[0]: BOX_CELLS[bx] is in ascending order
            first == Least(positions)
            r0    == idxRow(first)
            c0    == idxCol(first)
        IN  [reasonId |-> IF posCount = 2 THEN ReasonId_PointingPair
                          ELSE IF posCount = 3 THEN ReasonId_PointingTriple
                          ELSE ReasonId_LockedCandidates,
             row      |-> IF \A p \in positions : idxRow(p) = r0 THEN r0 ELSE -1,
             col      |-> IF \A p \in positions : idxCol(p) = c0 THEN c0 ELSE -1]

\* the call for cell k of the row (line = 0) or of the column (line = 1)
Locked_line(b, found, bx, digit, line, k) ==
  LET u   == IF line = 0 THEN found.row ELSE found.col
      idx == IF line = 0 THEN At(ROW_CELLS, u, k) ELSE At(COL_CELLS, u, k)
  IN  IF u = -1 THEN NoEvent
      ELSE IF idxBox(idx) = bx THEN NoEvent
      ELSE enqueueRemoveCandidate(b, idx, digit, found.reasonId)

\* for b: for digit: the 9 cells of the row, then the 9 cells of the column
techLockedCandidates(Q, b) ==
  LET found == Tabulated([x \in 0..80 |-> Locked_boxDigit(b, x \div 9, (x % 9) + 1)])
      at(n) == Locked_line(b, found[(n - 1) \div 18], (n - 1) \div 162,
                           (((n - 1) % 162) \div 18) + 1, ((n - 1) % 18) \div 9, (n - 1) % 9)
  IN  pushAll(Q, SelectSeq([n \in 1..1458 |-> at(n)], IsEvent))

NakedSingles_at(b, n) ==
  LET i == n - 1
  IN  IF isSolved(b, i) THEN NoEvent
      ELSE enqueueSetValue(b, i, getSingleCandidate(b, i), ReasonId_NakedSingle)

techNakedSingles(Q, b) ==
  pushAll(Q, SelectSeq([n \in 1..81 |-> NakedSingles_at(b, n)], IsEvent))

TECHNIQUES == <<"techFullHouse", "techHiddenSingles", "techLockedCandidates", "techNakedSingles">>

Technique(name, Q, b) ==
  CASE name = "techFullHouse"        -> techFullHouse(Q, b)
    [] name = "techHiddenSingles"    -> techHiddenSingles(Q, b)
    [] name = "techLockedCandidates" -> techLockedCandidates(Q, b)
    [] name = "techNakedSingles"     -> techNakedSingles(Q, b)

\* step 2 of dequeue_event: run the techniques from TECHNIQUES[i] on, stop at the first that enqueues
RECURSIVE RunTechniques(_, _, _)
RunTechniques(Q, b, i) ==
  IF i > Len(TECHNIQUES) THEN Q
  ELSE
    LET Q1 == Technique(TECHNIQUES[i], Q, b)
    IN  IF size(Q1) # size(Q) THEN Q1 ELSE RunTechniques(Q1, b, i + 1)

\* dequeue_event without its step 3: what a scan enqueues stays in the queue
dequeue_event_scanOnly(b, Q) ==
  IF ~empty(Q)
    THEN [ret |-> 1, out |-> front(Q), fromPrev |-> 1, queue |-> pop(Q)]
    ELSE [ret |-> 0, out |-> NoEvent, fromPrev |-> 0, queue |-> RunTechniques(Q, b, 1)]

\* the int returned, the event and fromPrev written, and the queue left
dequeue_event(b, Q) ==
  IF ~empty(Q)
    THEN [ret |-> 1, out |-> front(Q), fromPrev |-> 1, queue |-> pop(Q)]
    ELSE
      LET Q1 == RunTechniques(Q, b, 1)
      IN  IF ~empty(Q1)
            THEN [ret |-> 1, out |-> front(Q1), fromPrev |-> 0, queue |-> pop(Q1)]
            ELSE [ret |-> 0, out |-> NoEvent, fromPrev |-> 0, queue |-> Q1]

applyEvent(b, ev) ==
  IF ev.type = EventType_SetValue THEN applySetValue(b, ev.idx, ev.digit)
  ELSE IF ev.type = EventType_RemoveCandidate THEN applyRemoveCandidate(b, ev.idx, ev.digit)
  ELSE b

\* exportToBuffers: the arrays values[81] and cands[81] it fills
exportToBuffers(b) ==
  [values |-> [i \in 0..80 |-> getValue(b, i)],
   cands  |-> [i \in 0..80 |-> getCandidateMask(b, i)]]

\* the arguments values, cands of sudorix_solver_hint: the buffers of a caller
\* that holds puzzle 10, and an empty grid whose masks have all 16 bits set
HintBuffers ==
  << exportToBuffers(importFromString(SudokuBoard, Inputs[10]).board),
     [values |-> [i \in 0..80 |-> 0], cands |-> [i \in 0..80 |-> 65535]] >>

\* the arguments in81 of sudorix_solver_init_board and of sudorix_solver_full
\* in a session that also calls sudorix_solver_hint and sudorix_solver_full
SessionInputs == {9, 10, 12}

SessionFullInputs == {4, 9}

\* the arguments in81 of sudorix_solver_init_board in a session of steps
StepInputs == {1, 2, 3, 5, 6, 7, 8, 11, 12}

\* the arguments in81 of sudorix_solver_init_board in a session that is started
\* again and again, with a string that is too short among them
RestartInputs == {9, 10, 12, 13}

\* the arguments in81 of sudorix_solver_full called on its own
FullInputs == 1..Len(Inputs)

\* the arguments out_words of sudorix_solver_next_step
OutWords == {4, 6}

\* const int guardMax = 200000
guardMax == 200000

NoEntry == [board |-> SudokuBoard, queue |-> EventQueue]

Call(op, arg, ret, out) == [op |-> op, arg |-> arg, ret |-> ret, out |-> out]

\* ret of a call that has not returned yet
Running == -1

Init ==
  /\ g_sudokuBoard = SudokuBoard
  /\ g_eventQueue = EventQueue
  /\ pc = "idle"
  /\ board = SudokuBoard
  /\ guard = 0
  /\ in81 = 0
  /\ entry = NoEntry
  /\ last = Call("none", 0, 0, <<>>)

(***************************************************************************)
(* Public API exported to JS                                               *)
(***************************************************************************)
\* what a store into cells[i] with i > 80 can do: hit memory that no object
\* of the solver occupies, or end the execution
Outcomes(oob) == IF oob THEN {"continues", "undefined"} ELSE {"continues"}

sudorix_solver_init_board(i) ==
  /\ pc = "idle"
  /\ LET r == importFromString(g_sudokuBoard, Inputs[i])
     IN  \E outcome \in Outcomes(r.oob) :
           /\ g_sudokuBoard' = r.board
           /\ IF outcome = "undefined"
                THEN /\ pc' = "undefined"
                     /\ last' = Call("init_board", i, Running, <<>>)
                     /\ UNCHANGED g_eventQueue
                ELSE /\ pc' = pc
                     /\ g_eventQueue' = IF r.ret = 0 THEN g_eventQueue
                                                     ELSE ResetQueue(g_eventQueue)
                     /\ last' = Call("init_board", i, r.ret, <<>>)
  /\ UNCHANGED <<board, guard, in81, entry>>

\* out[0..4] as the code writes them
Serialize(ev) == <<ev.type, ev.idx, ev.digit, ev.reason, 0>>

\* out[0] .. out[4] are written whatever room the caller announced
WordsWritten == 5

sudorix_solver_next_step ==
  /\ pc = "idle"
  /\ LET d == dequeue_event(g_sudokuBoard, g_eventQueue)
     IN  \E out_words \in OutWords :
         \E outcome \in Outcomes(out_words < WordsWritten) :
           /\ g_eventQueue' = d.queue
           /\ IF outcome = "undefined"
                THEN /\ pc' = "undefined"
                     /\ g_sudokuBoard' = g_sudokuBoard
                     /\ last' = Call("next_step", out_words, Running, <<>>)
                ELSE IF d.ret = 0
                THEN /\ pc' = pc
                     /\ g_sudokuBoard' = g_sudokuBoard
                     /\ last' = Call("next_step", out_words, 0, <<0, 0, 0, 0, 0>>)
                ELSE /\ pc' = pc
                     /\ g_sudokuBoard' = applyEvent(g_sudokuBoard, d.out)
                     /\ last' = Call("next_step", out_words, 1, Serialize(d.out))
  /\ UNCHANGED <<board, guard, in81, entry>>

sudorix_solver_hint(h) ==
  /\ pc = "idle"
  /\ LET b == importFromBuffers(SudokuBoard, HintBuffers[h].values, HintBuffers[h].cands)
         d == dequeue_event(b, ResetQueue(g_eventQueue))
     IN  /\ g_eventQueue' = d.queue
         /\ last' = IF d.ret = 0
                      THEN Call("hint", h, 0, <<0, 0, 0, 0, 0>>)
                      ELSE Call("hint", h, 1, Serialize(d.out))
  /\ UNCHANGED <<g_sudokuBoard, pc, board, guard, in81, entry>>

\* sudorix_solver_full up to its solve loop
sudorix_solver_full_enter(i) ==
  /\ pc = "idle"
  /\ LET r == importFromString(SudokuBoard, Inputs[i])
     IN  \E outcome \in Outcomes(r.oob) :
         IF outcome = "undefined"
           THEN /\ pc' = "undefined"
                /\ board' = r.board
                /\ last' = Call("full", i, Running, <<>>)
                /\ UNCHANGED <<g_eventQueue, guard, in81, entry>>
         ELSE IF r.ret = 0
           THEN /\ last' = Call("full", i, 0, <<>>)
                /\ UNCHANGED <<g_eventQueue, pc, board, guard, in81, entry>>
           ELSE /\ board' = r.board
                /\ g_eventQueue' = ResetQueue(g_eventQueue)
                /\ guard' = 0
                /\ in81' = i
                /\ pc' = "full"
                /\ entry' = [board |-> g_sudokuBoard, queue |-> g_eventQueue]
                /\ last' = Call("full", i, Running, <<>>)
  /\ UNCHANGED g_sudokuBoard

\* out81[0..80]
Export(b) == [i \in 1..81 |-> IF getValue(b, i - 1) # 0 THEN Ch0 + getValue(b, i - 1) ELSE ChDot]

\* one pass through while (guard++ < guardMax): either an event is applied, or
\* the loop is left and the function exports and returns
sudorix_solver_full_loop ==
  /\ pc = "full"
  /\ LET d == dequeue_event(board, g_eventQueue)
     IN  IF guard < guardMax /\ d.ret # 0 /\ d.out.type # EventType_None
           THEN /\ g_eventQueue' = d.queue
                /\ board' = applyEvent(board, d.out)
                /\ guard' = guard + 1
                /\ UNCHANGED <<pc, in81, entry, last>>
           ELSE /\ g_eventQueue' = IF guard < guardMax THEN d.queue ELSE g_eventQueue
                /\ last' = Call("full", in81, 1, Export(board))
                /\ pc' = "idle"
                /\ board' = SudokuBoard
                /\ guard' = 0
                /\ in81' = 0
                /\ entry' = NoEntry
  /\ UNCHANGED g_sudokuBoard

InitBoard == \E i \in SessionInputs : sudorix_solver_init_board(i)

InitStep == \E i \in StepInputs : sudorix_solver_init_board(i)

InitRestart == \E i \in RestartInputs : sudorix_solver_init_board(i)

Hint == \E h \in 1..Len(HintBuffers) : sudorix_solver_hint(h)

FullSession == \E i \in SessionFullInputs : sudorix_solver_full_enter(i)

FullAny == \E i \in FullInputs : sudorix_solver_full_enter(i)

Next ==
  \/ InitBoard
  \/ sudorix_solver_next_step
  \/ Hint
  \/ FullSession
  \/ sudorix_solver_full_loop

Spec == Init /\ [][Next]_vars

NextStep ==
  \/ InitStep
  \/ sudorix_solver_next_step

SpecStep == Init /\ [][NextStep]_vars

NextRestart ==
  \/ InitRestart
  \/ sudorix_solver_next_step

SpecRestart == Init /\ [][NextRestart]_vars

NextFull ==
  \/ FullAny
  \/ sudorix_solver_full_loop

SpecFull == Init /\ [][NextFull]_vars

(***************************************************************************)
(* The grid a string denotes: its k-th recognized symbol is cell k - 1     *)
(***************************************************************************)
Tokens(values) == SelectSeq(values, Import_isToken)

Grid(values) == [c \in 0..80 |-> Import_digit(Tokens(values)[c + 1])]

\* two givens of one unit carry the same digit, or an empty cell sees all nine digits
Inconsistent(values) ==
  LET v == Tabulated(Grid(values))
  IN  \/ \E i \in 0..80 : v[i] # 0 /\ \E j \in UnitMates[i] \ {i} : v[j] = v[i]
      \/ \E i \in 0..80 : v[i] = 0 /\ \A d \in Digits : \E j \in UnitMates[i] : v[j] = d

ShortInputs == {i \in 1..Len(Inputs) : Len(Tokens(Inputs[i])) < 81}

InconsistentInputs == {i \in (1..Len(Inputs)) \ ShortInputs : Inconsistent(Inputs[i])}

\* the inputs that have exactly one solution, which Full House, Hidden Single,
\* Locked Candidates, Naked Single and Box-Line Reduction reach
UniqueLogical == {1, 3, 7, 8}

\* every row, column and box of out81 holds each of '1' .. '9'
IsSolvedGrid(out81) ==
  /\ Len(out81) = 81
  /\ \A u \in 0..8 :
       /\ {out81[At(ROW_CELLS, u, k) + 1] : k \in 0..8} = Ch1..Ch9
       /\ {out81[At(COL_CELLS, u, k) + 1] : k \in 0..8} = Ch1..Ch9
       /\ {out81[At(BOX_CELLS, u, k) + 1] : k \in 0..8} = Ch1..Ch9

Returned(op) == last.op = op /\ last.ret # Running

\* the event that out[0..3] describe
EventOf(out) == Event(out[1], out[2], out[3], out[4])

\* an operation is applicable: a placement needs an unsolved cell, a removal an
\* unsolved cell that still carries the digit
Applicable(b, ev) ==
  IF ev.type = EventType_SetValue THEN ~isSolved(b, ev.idx)
  ELSE ~isSolved(b, ev.idx) /\ hasCandidate(b, ev.idx, ev.digit)

\* Box-Line Reduction has a deduction on b: in some row or column a digit has 2 or
\* 3 unsolved candidate cells, all in one box, and the box has another unsolved
\* cell outside the line that carries the digit
UnitCells(tbl, u) == {At(tbl, u, k) : k \in 0..8}

BoxLineReduction_in(b, line, digit) ==
  LET pos == {i \in line : ~isSolved(b, i) /\ hasCandidate(b, i, digit)}
  IN  /\ Cardinality(pos) \in {2, 3}
      /\ \E bx \in 0..8 :
           /\ \A i \in pos : idxBox(i) = bx
           /\ \E j \in UnitCells(BOX_CELLS, bx) \ line :
                ~isSolved(b, j) /\ hasCandidate(b, j, digit)

BoxLineReduction_fires(b) ==
  \E u \in 0..8, digit \in Digits :
    \/ BoxLineReduction_in(b, UnitCells(ROW_CELLS, u), digit)
    \/ BoxLineReduction_in(b, UnitCells(COL_CELLS, u), digit)

Fires(name, b) == ~empty(Technique(name, EventQueue, b))

Reasons(name) ==
  CASE name = "techFullHouse"        -> {ReasonId_FullHouse}
    [] name = "techHiddenSingles"    -> {ReasonId_HiddenSingle}
    [] name = "techLockedCandidates" -> {ReasonId_PointingPair, ReasonId_PointingTriple,
                                         ReasonId_LockedCandidates}
    [] name = "techNakedSingles"     -> {ReasonId_NakedSingle}

\* a call of sudorix_solver_next_step that returned
StepReturns == sudorix_solver_next_step /\ pc' = "idle"

(***************************************************************************)
(* The claims                                                              *)
(***************************************************************************)

\* C1: for every valid 81-symbol input that has a unique logical solution,
\* sudorix_solver_full returns 1 and an out81 in which every row, column and box
\* holds each digit 1-9 exactly once
C1_FullSolvesUniqueLogical ==
  (Returned("full") /\ last.arg \in UniqueLogical)
    => (last.ret = 1 /\ IsSolvedGrid(last.out))

\* C2: for every input sudorix_solver_full accepts, each given digit of the input,
\* the k-th recognized symbol, stands unchanged at cell k - 1 of out81
C2_GivensPreserved ==
  (Returned("full") /\ last.ret = 1)
    => \A c \in 0..80 :
         Grid(Inputs[last.arg])[c] # 0
           => last.out[c + 1] = Ch0 + Grid(Inputs[last.arg])[c]

\* C3: the event returned by a step was applicable to the session board as it
\* stood when the step drained it
C3_ReturnedEventApplicable ==
  [][(StepReturns /\ last'.ret = 1)
       => Applicable(g_sudokuBoard, EventOf(last'.out))]_vars

\* C4: when sudorix_solver_next_step returns an event the session board reflects
\* it: a returned SetValue (idx, d) finds cell idx with value d, and a returned
\* RemoveCandidate (idx, d) finds cell idx without candidate d
C4_BoardReflectsReturnedEvent ==
  (Returned("next_step") /\ last.ret = 1)
    => LET ev == EventOf(last.out)
       IN  /\ ev.type = EventType_SetValue => getValue(g_sudokuBoard, ev.idx) = ev.digit
           /\ ev.type = EventType_RemoveCandidate
                => ~hasCandidate(g_sudokuBoard, ev.idx, ev.digit)

\* a step returned a removal that left one candidate, and the cell was placed
C4_Witness ==
  /\ Returned("next_step")
  /\ last.ret = 1
  /\ last.out[1] = EventType_RemoveCandidate
  /\ isSolved(g_sudokuBoard, last.out[2])
  /\ getValue(g_sudokuBoard, last.out[2]) # last.out[3]

\* C5: a step on an empty queue returns an event of the first technique, in the
\* order Full House, Hidden Single, Locked Candidates, Naked Single, Box-Line
\* Reduction, that has a deduction on the board, and no event only when none has
C5_FirstTechniqueInOrder ==
  [][(StepReturns /\ empty(g_eventQueue))
       => LET firing == {i \in 1..Len(TECHNIQUES) : Fires(TECHNIQUES[i], g_sudokuBoard)}
          IN  IF firing # {}
                THEN last'.ret = 1 /\ last'.out[4] \in Reasons(TECHNIQUES[Least(firing)])
              ELSE IF BoxLineReduction_fires(g_sudokuBoard)
                THEN last'.ret = 1 /\ last'.out[4] = ReasonId_BoxLineReduction
              ELSE last'.ret = 0]_vars

\* C6: a call of sudorix_solver_hint leaves the session board and the session
\* queue exactly as they were
C6_HintKeepsNoState ==
  [][Hint => (g_sudokuBoard' = g_sudokuBoard /\ g_eventQueue' = g_eventQueue)]_vars

\* C7: when sudorix_solver_full returns, the session board and the pending events
\* of the session queue are what they were when it was called
C7_FullIsPrivate ==
  [][(pc = "full" /\ pc' = "idle")
       => (g_sudokuBoard' = entry.board /\ g_eventQueue'.q = entry.queue.q)]_vars

\* C8: a step called with fewer than 4 + 2*n words of room, n the number of
\* operations of the event about to be returned, fails and changes neither the
\* session queue nor the session board
OperationCount == 1

C8_SmallBufferFails ==
  [][(StepReturns
        /\ dequeue_event(g_sudokuBoard, g_eventQueue).ret = 1
        /\ last'.arg < 4 + 2 * OperationCount)
       => (last'.ret = 0
             /\ g_eventQueue' = g_eventQueue
             /\ g_sudokuBoard' = g_sudokuBoard)]_vars

\* C9: once every cell of the session board has a value, every step returns no event
C9_SolvedBoardIsQuiet ==
  [][(StepReturns /\ isCompletelySolved(g_sudokuBoard)) => last'.ret = 0]_vars

\* C10: sudorix_solver_full and sudorix_solver_init_board return 0 when the input
\* holds fewer than 81 recognized symbols and when the parsed grid is inconsistent
C10_RejectsBadInput ==
  ((Returned("full") \/ Returned("init_board"))
     /\ last.arg \in ShortInputs \cup InconsistentInputs)
    => last.ret = 0

\* C11: importFromString skips every character other than '0'-'9' and '.', and the
\* k-th recognized symbol decides cell k - 1, wherever the skipped characters sit:
\* the board sudorix_solver_full has imported holds the grid its input denotes
C11_SymbolKIsCellK ==
  (pc = "full" /\ guard = 0)
    => \A c \in 0..80 : getValue(board, c) = Grid(Inputs[in81])[c]

\* the board that holds the grid of values with candidates recomputed from it
ParsedBoard(values) ==
  LET grid == Tabulated(Grid(values))
  IN  _recalcAllCandidatesFromValues(
        Tabulated([c \in 0..80 |-> Cell_setValue(SudokuCell, grid[c])])).board

\* C12: after a successful sudorix_solver_init_board, whatever calls came before,
\* the session queue is empty and the session board is the parsed puzzle with
\* freshly recomputed candidates
C12_InitStartsAfresh ==
  (Returned("init_board") /\ last.ret = 1)
    => (empty(g_eventQueue) /\ g_sudokuBoard = ParsedBoard(Inputs[last.arg]))

\* C13: a step drains the pending events before it scans the techniques, and the
\* provenance flag it returns is 1 exactly when the returned event was pending in
\* the queue before the call, 0 exactly when a technique scan of the call made it
C13_ProvenanceFlag ==
  [][(StepReturns /\ last'.ret = 1)
       => /\ ~empty(g_eventQueue) => EventOf(last'.out) = front(g_eventQueue)
          /\ last'.out[5] = IF empty(g_eventQueue) THEN 0 ELSE 1]_vars

\* the pending events left once every head without an applicable operation is discarded
RECURSIVE Drained(_, _)
Drained(Q, b) ==
  IF empty(Q) \/ Applicable(b, front(Q)) THEN Q ELSE Drained(pop(Q), b)

\* some technique has a deduction on b
SomeTechniqueFires(b) ==
  \/ \E i \in 1..Len(TECHNIQUES) : Fires(TECHNIQUES[i], b)
  \/ BoxLineReduction_fires(b)

\* C14: a step discards every head event that has no applicable operation left and
\* goes on with the next pending event, then with a technique scan; it returns the
\* first pending event that is still applicable, never an event without one, and
\* no event only when the queue is empty and no technique fires
C14_StaleHeadDiscarded ==
  [][StepReturns
       => LET D == Drained(g_eventQueue, g_sudokuBoard)
          IN  /\ ~empty(D) => (last'.ret = 1 /\ EventOf(last'.out) = front(D))
              /\ empty(D) => (last'.ret = 1 <=> SomeTechniqueFires(g_sudokuBoard))
              /\ last'.ret = 0 => empty(g_eventQueue)]_vars

\* the board with no givens: every cell empty with all nine candidates
EmptyBoard == [idx \in 0..80 |-> [value |-> 0, candMask |-> ALL]]

\* C15: in a session initialised with 81 empty symbols no technique fires, and the
\* very first step returns no event
C15_EmptyBoardFirstStepIsQuiet ==
  [][(StepReturns /\ Returned("init_board") /\ last.ret = 1 /\ Inputs[last.arg] = Inputs[11])
       => /\ g_sudokuBoard = EmptyBoard
          /\ \A i \in 1..Len(TECHNIQUES) : ~Fires(TECHNIQUES[i], g_sudokuBoard)
          /\ last'.ret = 0]_vars

\* the first step of a session on the board with no givens has returned no event
C15_Witness ==
  /\ Returned("next_step") /\ last.ret = 0
  /\ g_sudokuBoard = EmptyBoard
  /\ empty(g_eventQueue)

\* the board importFromBuffers makes of the arrays exportToBuffers takes from b
RoundTrip(b) ==
  LET buffers == exportToBuffers(b)
  IN  importFromBuffers(SudokuBoard, buffers.values, buffers.cands)

\* C16: exportToBuffers followed by importFromBuffers of the exported arrays gives
\* back every reachable session board: the same value and the same candidate mask
\* in each of the 81 cells
C16_ExportImportRoundTrip ==
  \A idx \in 0..80 :
    /\ getValue(RoundTrip(g_sudokuBoard), idx) = getValue(g_sudokuBoard, idx)
    /\ getCandidateMask(RoundTrip(g_sudokuBoard), idx) = getCandidateMask(g_sudokuBoard, idx)

\* C17: sudorix_solver_full on the string
\* "53..7....6..195....98....6.8...6...34..8.3..17...2...6.6....28....419..5....8.79"
\* (Inputs[4]) returns 1 with an out81 in which every row, column and box is a
\* permutation of 1-9
C17_ScenarioSolves ==
  (Returned("full") /\ last.arg = 4)
    => (last.ret = 1 /\ IsSolvedGrid(last.out))

\* C17 as amended: that string holds 80 recognized symbols and sudorix_solver_full
\* returns 0 on it; on the 81-symbol puzzle that ends in "8..79" (Inputs[7]) it
\* returns 1 with an out81 in which every row, column and box is a permutation of 1-9
C17_ScenarioIsShort ==
  /\ (Returned("full") /\ last.arg = 4)
       => (Len(Tokens(Inputs[4])) = 80 /\ last.ret = 0)
  /\ (Returned("full") /\ last.arg = 7)
       => (Len(Tokens(Inputs[7])) = 81 /\ last.ret = 1 /\ IsSolvedGrid(last.out))

\* sudorix_solver_full has returned 0 on the 80-symbol string
C17_Witness ==
  Returned("full") /\ last.arg = 4 /\ last.ret = 0 /\ pc = "idle"

\* every solved cell of b has the bit of its value as its whole candidate mask
SolvedCellsHaveOwnBit(b) ==
  \A idx \in 0..80 :
    isSolved(b, idx) => getCandidateMask(b, idx) = digitToBit(getValue(b, idx))

\* C18: in every board state reached by imports, steps and full solves, the session
\* board and the board of a running full solve alike, every cell with a value has
\* exactly the bit of that value as its candidate mask
C18_SolvedCellHasOwnBit ==
  SolvedCellsHaveOwnBit(g_sudokuBoard) /\ SolvedCellsHaveOwnBit(board)

\* no row, column or box of b holds two solved cells with the same digit
UnitsHaveNoDuplicate(b) ==
  \A i \in 0..80, j \in 0..80 :
    (i < j /\ SameUnit(i, j) /\ isSolved(b, i) /\ isSolved(b, j))
      => getValue(b, i) # getValue(b, j)

\* C19: from any accepted input on, after any number of applied steps, neither the
\* session board nor the board of a running full solve has a row, column or box
\* with two solved cells of the same digit
C19_UnitUniqueness ==
  UnitsHaveNoDuplicate(g_sudokuBoard) /\ UnitsHaveNoDuplicate(board)

\* every cell's candidate set in b2 is a subset of what it is in b1
CandidatesShrink(b1, b2) ==
  \A idx \in 0..80, digit \in Digits :
    hasCandidate(b2, idx, digit) => hasCandidate(b1, idx, digit)

\* C20: a step that applies an event to a board (a step of the session, an iteration
\* of a full solve) never turns on a candidate bit that was off: every cell's
\* candidate set after the step is a subset of what it was before
C20_CandidatesOnlyShrink ==
  [][/\ sudorix_solver_next_step => CandidatesShrink(g_sudokuBoard, g_sudokuBoard')
     /\ (sudorix_solver_full_loop /\ pc' = "full") => CandidatesShrink(board, board')]_vars

\* b2 is b1 with digit placed in idx and removed from the unsolved peers of idx,
\* and with nothing else changed
PlacementFrame(b1, b2, idx, digit) ==
  \A j \in 0..80 :
    IF j = idx
      THEN b2[j] = [value |-> digit, candMask |-> digitToBit(digit)]
    ELSE IF SameUnit(idx, j) /\ ~isSolved(b1, j)
      THEN /\ getValue(b2, j) = 0
           /\ \A e \in Digits : hasCandidate(b2, j, e) <=> (e # digit /\ hasCandidate(b1, j, e))
    ELSE b2[j] = b1[j]

\* C21: on every reachable session board, applySetValue(idx, d) sets cell idx to d,
\* removes candidate d from every other unsolved cell of idx's row, column and box
\* and changes nothing else: no other cell, no solved peer, no other candidate of
\* the unsolved peers, and no peer is placed
C21_PlacementFrame ==
  \A idx \in 0..80, digit \in Digits :
    PlacementFrame(g_sudokuBoard, applySetValue(g_sudokuBoard, idx, digit), idx, digit)

\* a step has applied a placement next to an unsolved peer
C21_Witness ==
  /\ Returned("next_step") /\ last.ret = 1
  /\ last.out[1] = EventType_SetValue
  /\ getValue(g_sudokuBoard, last.out[2]) = last.out[3]
  /\ \E j \in 0..80 : j # last.out[2] /\ SameUnit(last.out[2], j) /\ ~isSolved(g_sudokuBoard, j)

\* what applyRemoveCandidate(idx, digit) is to make of b1, by the number of
\* candidates that cell idx keeps once digit is disabled
RemovalOutcome(b1, b2, idx, digit) ==
  LET disabled == disableCandidate(b1, idx, digit)
      left     == {e \in Digits : hasCandidate(b1, idx, e) /\ e # digit}
  IN  /\ Cardinality(left) = 1
           => \E only \in left :
                /\ getValue(b2, idx) = only
                /\ PlacementFrame(disabled, b2, idx, only)
      /\ Cardinality(left) >= 2
           => /\ ~isSolved(b2, idx)
              /\ \A e \in Digits : hasCandidate(b2, idx, e) <=> e \in left
              /\ \A j \in 0..80 \ {idx} : b2[j] = b1[j]
      /\ isSolved(b2, idx) \/ countBits9(getCandidateMask(b2, idx)) # 1

\* C22: on every reachable session board, applyRemoveCandidate(idx, d) disables
\* candidate d of cell idx; if exactly one candidate is left it places that digit
\* in the same call with peer propagation, so that on return the cell is solved or
\* does not have exactly one candidate; if two or more are left the cell stays
\* unsolved with only d removed
C22_RemovalCascades ==
  \A idx \in 0..80, digit \in Digits :
    RemovalOutcome(g_sudokuBoard, applyRemoveCandidate(g_sudokuBoard, idx, digit), idx, digit)

\* a step has applied a removal that left its cell unsolved with several candidates
C22_Witness ==
  /\ Returned("next_step") /\ last.ret = 1
  /\ last.out[1] = EventType_RemoveCandidate
  /\ ~isSolved(g_sudokuBoard, last.out[2])
  /\ ~hasCandidate(g_sudokuBoard, last.out[2], last.out[3])
  /\ countBits9(getCandidateMask(g_sudokuBoard, last.out[2])) >= 2

\* the candidates of b are those its values leave: a solved cell has its own digit,
\* an unsolved cell every digit that no solved cell of its row, column or box holds
CandidatesFollowValues(b) ==
  \A idx \in 0..80, digit \in Digits :
    hasCandidate(b, idx, digit)
      <=> IF isSolved(b, idx)
            THEN getValue(b, idx) = digit
            ELSE \A j \in 0..80 : (j # idx /\ SameUnit(idx, j)) => getValue(b, j) # digit

\* C23: after a successful importFromString (sudorix_solver_init_board returned 1)
\* every unsolved cell's candidate set is exactly the digits that are the value of
\* no solved cell in its row, column or box, and every solved cell's is its own digit
C23_ImportRecomputesCandidates ==
  (Returned("init_board") /\ last.ret = 1) => CandidatesFollowValues(g_sudokuBoard)

\* C24: the queue is first in, first out: a step that finds events pending returns
\* the one at the front and leaves the others as they were, in their order; a step
\* that finds none leaves what its scan appended, less the front entry it returns;
\* the set of ids always matches the entries
C24_QueueIsFifo ==
  [][StepReturns
       => /\ ~empty(g_eventQueue)
               => /\ last'.ret = 1
                  /\ EventOf(last'.out) = Head(g_eventQueue.q)
                  /\ g_eventQueue'.q = Tail(g_eventQueue.q)
          /\ empty(g_eventQueue)
               => \/ last'.ret = 0 /\ g_eventQueue'.q = <<>>
                  \/ /\ last'.ret = 1
                     /\ \A k \in 1..Len(g_eventQueue'.q) :
                          getEventId(g_eventQueue'.q[k]) # getEventId(EventOf(last'.out))
          /\ g_eventQueue'.s = {getEventId(g_eventQueue'.q[k]) : k \in 1..Len(g_eventQueue'.q)}
          /\ \A j, k \in 1..Len(g_eventQueue'.q) :
               j # k => getEventId(g_eventQueue'.q[j]) # getEventId(g_eventQueue'.q[k])]_vars

\* a step has returned an event while others stay pending behind it
C24_Witness ==
  /\ Returned("next_step") /\ last.ret = 1
  /\ size(g_eventQueue) >= 2
  /\ getEventId(EventOf(last.out)) \notin g_eventQueue.s

\* idx is the one unsolved cell of the unit that carries digit
OnlyPlaceIn(b, unit, idx, digit) ==
  {j \in unit : ~isSolved(b, j) /\ hasCandidate(b, j, digit)} = {idx}

\* where a Hidden Single scan of b meets (idx, digit) first: 0 in a box, 1 in a
\* row and in no box, 2 in a column only, 3 nowhere
FoundIn(b, idx, digit) ==
  IF OnlyPlaceIn(b, UnitCells(BOX_CELLS, idxBox(idx)), idx, digit) THEN 0
  ELSE IF OnlyPlaceIn(b, UnitCells(ROW_CELLS, idxRow(idx)), idx, digit) THEN 1
  ELSE IF OnlyPlaceIn(b, UnitCells(COL_CELLS, idxCol(idx)), idx, digit) THEN 2
  ELSE 3

\* the events a Hidden Single pass enqueues on b, in their order
HiddenSinglePass(b) == techHiddenSingles(EventQueue, b).q

\* C25: on every reachable session board a Hidden Single pass enqueues the hidden
\* singles of the board and nothing else, every one found in a box before every
\* one found only in a row, and those before every one found only in a column
C25_BoxesRowsColumns ==
  LET pass == HiddenSinglePass(g_sudokuBoard)
  IN  /\ \A k \in 1..Len(pass) :
           /\ pass[k].type = EventType_SetValue /\ pass[k].reason = ReasonId_HiddenSingle
           /\ FoundIn(g_sudokuBoard, pass[k].idx, pass[k].digit) < 3
      /\ \A idx \in 0..80, digit \in Digits :
           FoundIn(g_sudokuBoard, idx, digit) < 3
             => \E k \in 1..Len(pass) : pass[k].idx = idx /\ pass[k].digit = digit
      /\ \A j, k \in 1..Len(pass) :
           j < k => FoundIn(g_sudokuBoard, pass[j].idx, pass[j].digit)
                      <= FoundIn(g_sudokuBoard, pass[k].idx, pass[k].digit)

\* a step is about to run a Hidden Single pass that finds events in a box and
\* events outside the boxes
C25_Witness ==
  /\ pc = "idle" /\ last.op # "none"
  /\ empty(g_eventQueue)
  /\ ~Fires("techFullHouse", g_sudokuBoard)
  /\ \E j, k \in 1..Len(HiddenSinglePass(g_sudokuBoard)) :
       LET pass == HiddenSinglePass(g_sudokuBoard)
       IN  /\ FoundIn(g_sudokuBoard, pass[j].idx, pass[j].digit) = 0
           /\ FoundIn(g_sudokuBoard, pass[k].idx, pass[k].digit) \in {1, 2}

\* the unsolved cells of box bx that carry digit
Pointing_cells(b, bx, digit) ==
  {i \in UnitCells(BOX_CELLS, bx) : ~isSolved(b, i) /\ hasCandidate(b, i, digit)}

\* the reason by the number of those cells
Pointing_reason(n) ==
  IF n = 2 THEN ReasonId_PointingPair
  ELSE IF n = 3 THEN ReasonId_PointingTriple ELSE ReasonId_LockedCandidates

\* the cells a pointing of digit from box bx along line clears: the unsolved cells
\* of the line outside the box that carry digit, when the box has 2 or more
\* candidate cells and all of them lie in the line; none otherwise
Pointing_targets(b, bx, digit, line) ==
  IF Cardinality(Pointing_cells(b, bx, digit)) >= 2 /\ Pointing_cells(b, bx, digit) \subseteq line
    THEN {i \in line : idxBox(i) # bx /\ ~isSolved(b, i) /\ hasCandidate(b, i, digit)}
    ELSE {}

Lines == {UnitCells(ROW_CELLS, u) : u \in 0..8} \cup {UnitCells(COL_CELLS, u) : u \in 0..8}

\* C26: a step that scans and returns a Locked Candidates event returns the one
\* event of a box, a digit and a row or column to which the box confines the
\* digit: its reason goes by the number of candidate cells of the box, and it
\* holds an operation for every unsolved cell of the line outside the box that
\* carries the digit, so that the step clears the digit from all of them
C26_OneEventPerPointing ==
  [][(StepReturns /\ empty(g_eventQueue) /\ last'.ret = 1
        /\ last'.out[4] \in Reasons("techLockedCandidates"))
       => LET ev == EventOf(last'.out)
          IN  /\ ev.type = EventType_RemoveCandidate
              /\ \E bx \in 0..8, line \in Lines :
                   LET targets == Pointing_targets(g_sudokuBoard, bx, ev.digit, line)
                   IN  /\ ev.idx \in targets
                       /\ ev.reason = Pointing_reason(
                            Cardinality(Pointing_cells(g_sudokuBoard, bx, ev.digit)))
                       /\ \A i \in targets : ~hasCandidate(g_sudokuBoard', i, ev.digit)]_vars

\* the cells Box-Line Reduction clears of digit for line: the unsolved cells
\* outside the line that carry digit, in the one box that holds the 2 or 3
\* candidate cells of the line; none when the line does not confine the digit
BoxLineReduction_targets(b, line, digit) ==
  LET pos == {i \in line : ~isSolved(b, i) /\ hasCandidate(b, i, digit)}
  IN  IF Cardinality(pos) \in {2, 3} /\ \E bx \in 0..8 : \A p \in pos : idxBox(p) = bx
        THEN {j \in 0..80 : /\ j \notin line
                            /\ \A p \in pos : idxBox(p) = idxBox(j)
                            /\ ~isSolved(b, j) /\ hasCandidate(b, j, digit)}
        ELSE {}

\* C27: when the queue is empty, none of Full House, Hidden Single, Locked
\* Candidates and Naked Single fires, and some row or column confines a digit to
\* 2 or 3 cells of one box that has another candidate cell outside the line, the
\* step returns a RemoveCandidate event with reason BoxLineReduction whose digit
\* and cell are such a digit and a cell of such a box outside the line
C27_BoxLineReductionReturned ==
  [][(StepReturns /\ empty(g_eventQueue)
        /\ (\A i \in 1..Len(TECHNIQUES) : ~Fires(TECHNIQUES[i], g_sudokuBoard))
        /\ BoxLineReduction_fires(g_sudokuBoard))
       => LET ev == EventOf(last'.out)
          IN  /\ last'.ret = 1
              /\ ev.type = EventType_RemoveCandidate
              /\ ev.reason = ReasonId_BoxLineReduction
              /\ \E line \in Lines :
                   ev.idx \in BoxLineReduction_targets(g_sudokuBoard, line, ev.digit)]_vars

\* applying ev to b repeats nothing: a placement finds its cell without a value,
\* a removal finds its cell with the candidate
NotRedundant(b, ev) ==
  /\ ev.type = EventType_SetValue => getValue(b, ev.idx) = 0
  /\ ev.type = EventType_RemoveCandidate => hasCandidate(b, ev.idx, ev.digit)

\* C28: no step of a session and no iteration of a full solve applies an operation
\* redundantly: a placement is never applied to a cell that is already solved and
\* a removal never to a cell that no longer has the candidate, so that no
\* (kind, cell, digit) is applied twice
C28_NothingAppliedTwice ==
  [][/\ (StepReturns /\ last'.ret = 1)
          => NotRedundant(g_sudokuBoard, EventOf(last'.out))
     /\ (sudorix_solver_full_loop /\ pc' = "full")
          => NotRedundant(board, dequeue_event(board, g_eventQueue).out)]_vars

\* C29: sudorix_solver_full comes to its return for every accepted input with its
\* guard far from the cap, because a call of dequeue_event produced no event: on
\* return the queue is empty and no technique fires on the final board
C29_FullStopsWhenStuck ==
  [][(sudorix_solver_full_loop /\ pc' = "idle")
       => /\ guard < guardMax
          /\ empty(g_eventQueue')
          /\ ~SomeTechniqueFires(board)]_vars

\* every event that a scan of b by one technique enqueues has an unsolved cell for
\* target and, when it is a removal, a digit that the cell carries
ScanTargetsAreLive(b) ==
  \A i \in 1..Len(TECHNIQUES) :
    LET pass == Technique(TECHNIQUES[i], EventQueue, b).q
    IN  \A k \in 1..Len(pass) :
          /\ ~isSolved(b, pass[k].idx)
          /\ pass[k].type = EventType_RemoveCandidate
               => hasCandidate(b, pass[k].idx, pass[k].digit)

\* the board sudorix_solver_hint scans for its argument h
HintBoard(h) == importFromBuffers(SudokuBoard, HintBuffers[h].values, HintBuffers[h].cands)

\* the same of the boards sudorix_solver_hint scans
HintScansAreLive == \A h \in 1..Len(HintBuffers) : ScanTargetsAreLive(HintBoard(h))

\* C30: a technique scan does not change the board it reads: a call of
\* sudorix_solver_hint leaves the session board as it was, a step changes it by
\* the application of the event it returns and by nothing else, and every event a
\* scan enqueues targets a cell that is unsolved at scan time and, for a removal,
\* a digit the cell carries at scan time
C30_ScanIsPure ==
  [][/\ ScanTargetsAreLive(g_sudokuBoard)
     /\ HintScansAreLive
     /\ Hint => g_sudokuBoard' = g_sudokuBoard
     /\ StepReturns
          => g_sudokuBoard' = IF last'.ret = 1
                                THEN applyEvent(g_sudokuBoard, EventOf(last'.out))
                                ELSE g_sudokuBoard]_vars

\* sudorix_solver_hint has scanned its board and returned an event while the
\* session board holds a pointing whose removals are still to be made
C30_Witness ==
  /\ Returned("hint") /\ last.ret = 1
  /\ \E k \in 1..size(techLockedCandidates(EventQueue, g_sudokuBoard)) : TRUE

\* completed grids, cell 0 first, as digits
KnownSolutions ==
  {
  (* the only solution of Inputs[1] *)
  <<
     4, 2, 8, 9, 3, 7, 6, 5, 1, 1, 3, 5, 2, 4, 6, 9, 8, 7, 7, 9, 6, 8, 5, 1, 3, 4, 2,
     5, 8, 7, 1, 6, 4, 2, 9, 3, 2, 1, 4, 5, 9, 3, 7, 6, 8, 9, 6, 3, 7, 8, 2, 5, 1, 4,
     6, 7, 2, 4, 1, 5, 8, 3, 9, 3, 4, 9, 6, 7, 8, 1, 2, 5, 8, 5, 1, 3, 2, 9, 4, 7, 6 >>,
  (* the only solution of Inputs[3] *)
  <<
     1, 9, 2, 7, 8, 3, 5, 6, 4, 7, 3, 8, 4, 6, 5, 9, 2, 1, 4, 5, 6, 1, 2, 9, 3, 8, 7,
     3, 2, 7, 5, 4, 8, 6, 1, 9, 9, 6, 1, 3, 7, 2, 8, 4, 5, 5, 8, 4, 9, 1, 6, 2, 7, 3,
     6, 4, 9, 2, 3, 1, 7, 5, 8, 8, 7, 5, 6, 9, 4, 1, 3, 2, 2, 1, 3, 8, 5, 7, 4, 9, 6 >>,
  (* the only solution of Inputs[7], the grid that Inputs[8] denotes as well *)
  <<
     5, 3, 4, 6, 7, 8, 9, 1, 2, 6, 7, 2, 1, 9, 5, 3, 4, 8, 1, 9, 8, 3, 4, 2, 5, 6, 7,
     8, 5, 9, 7, 6, 1, 4, 2, 3, 4, 2, 6, 8, 5, 3, 7, 9, 1, 7, 1, 3, 9, 2, 4, 8, 5, 6,
     9, 6, 1, 5, 3, 7, 2, 8, 4, 2, 8, 7, 4, 1, 9, 6, 3, 5, 3, 4, 5, 2, 8, 6, 1, 7, 9 >>,
  (* a solution of Inputs[12] *)
  <<
     2, 3, 1, 4, 5, 6, 7, 8, 9, 4, 5, 8, 3, 7, 9, 1, 2, 6, 6, 7, 9, 1, 2, 8, 3, 4, 5,
     1, 2, 5, 7, 6, 3, 8, 9, 4, 7, 8, 4, 5, 9, 1, 2, 6, 3, 3, 9, 6, 2, 8, 4, 5, 1, 7,
     5, 4, 3, 6, 1, 2, 9, 7, 8, 8, 1, 7, 9, 4, 5, 6, 3, 2, 9, 6, 2, 8, 3, 7, 4, 5, 1 >>,
  (* another solution of Inputs[12] *)
  <<
     2, 3, 1, 4, 5, 6, 7, 8, 9, 4, 5, 8, 3, 7, 9, 1, 2, 6, 6, 7, 9, 1, 2, 8, 3, 4, 5,
     1, 2, 5, 7, 6, 3, 8, 9, 4, 7, 8, 4, 5, 9, 1, 2, 6, 3, 3, 9, 6, 2, 8, 4, 5, 1, 7,
     5, 4, 3, 6, 1, 2, 9, 7, 8, 8, 6, 2, 9, 3, 7, 4, 5, 1, 9, 1, 7, 8, 4, 5, 6, 3, 2 >>
  }

\* S is a complete grid without clash that agrees with the givens of values
IsSolutionOf(S, values) ==
  /\ Len(Tokens(values)) >= 81
  /\ \A u \in 0..8 :
       /\ {S[At(ROW_CELLS, u, k) + 1] : k \in 0..8} = Digits
       /\ {S[At(COL_CELLS, u, k) + 1] : k \in 0..8} = Digits
       /\ {S[At(BOX_CELLS, u, k) + 1] : k \in 0..8} = Digits
  /\ \A c \in 0..80 : Grid(values)[c] # 0 => S[c + 1] = Grid(values)[c]

\* b has taken no wrong turn for S: a solved cell holds the digit of S and an
\* unsolved cell carries it as a candidate
SoundFor(b, S) ==
  \A c \in 0..80 :
    IF isSolved(b, c) THEN getValue(b, c) = S[c + 1] ELSE hasCandidate(b, c, S[c + 1])

\* C31: a session initialised from a puzzle with a solution S starts on a board
\* that is sound for S, and no step takes a board that is sound for S to one that
\* is not: no returned placement places another digit than that of S and no
\* returned removal, cascade or peer propagation removes the digit of S
C31_DeductionsAreSound ==
  [][\A S \in KnownSolutions :
       /\ (Returned("init_board") /\ last.ret = 1 /\ IsSolutionOf(S, Inputs[last.arg]))
            => SoundFor(g_sudokuBoard, S)
       /\ (StepReturns /\ SoundFor(g_sudokuBoard, S))
            => SoundFor(g_sudokuBoard', S)]_vars

\* every cell that has a value in b1 has the same value in b2
ValuesKept(b1, b2) ==
  \A c \in 0..80 : isSolved(b1, c) => getValue(b2, c) = getValue(b1, c)

\* C32: within a session and within a full solve a cell that has a value keeps it:
\* no step and no iteration changes the value of a solved cell or empties it,
\* whatever input was accepted and whenever the applied event was enqueued
C32_CellsAreWriteOnce ==
  [][/\ StepReturns => ValuesKept(g_sudokuBoard, g_sudokuBoard')
     /\ (sudorix_solver_full_loop /\ pc' = "full") => ValuesKept(board, board')]_vars

\* C33: a step that returns no event leaves the session board and the session
\* queue as they were and zeroes the output buffer, and the step after a step
\* that returned no event returns no event as well
C33_StuckIsStable ==
  [][StepReturns
       => /\ last'.ret = 0
               => /\ g_sudokuBoard' = g_sudokuBoard
                  /\ g_eventQueue' = g_eventQueue
                  /\ \A k \in 1..Len(last'.out) : last'.out[k] = 0
          /\ (Returned("next_step") /\ last.ret = 0) => last'.ret = 0]_vars

\* a step has returned no event on a board that is solved in part, the queue empty
C33_Witness ==
  /\ Returned("next_step") /\ last.ret = 0
  /\ empty(g_eventQueue)
  /\ ~isCompletelySolved(g_sudokuBoard)
  /\ \E c \in 0..80 : isSolved(g_sudokuBoard, c)

\* C34: a call of sudorix_solver_init_board that fails because its input holds
\* fewer than 81 recognized symbols leaves the session board and the session
\* queue exactly as they were, so that the session goes on with the same event
C34_FailedInitIsAtomic ==
  [][(InitRestart /\ last'.ret = 0 /\ Len(Tokens(Inputs[last'.arg])) < 81)
       => /\ g_sudokuBoard' = g_sudokuBoard
          /\ g_eventQueue' = g_eventQueue
          /\ dequeue_event(g_sudokuBoard', g_eventQueue').out
               = dequeue_event(g_sudokuBoard, g_eventQueue).out]_vars
====
